---- MODULE Spec2Model ----
(***************************************************************************)
(* Model of the advanced-analysis node of DigitalFootprintInvestigator     *)
(* (graph/nodes/advanced.py): the node itself and its pure helpers.        *)
(*                                                                         *)
(* Python values are modelled as follows.                                  *)
(*   - An optional value / a mapping key that may be missing is a sequence *)
(*     of length 0 (None, key absent) or 1 (<<v>>).                        *)
(*   - A str is a sequence of tokens, so that substring and prefix tests   *)
(*     ('@' in id, 'http' in id) are computed on the string's content.     *)
(*   - A timestamp string is its date, its second of the day and its       *)
(*     zone suffix ("" for none, "Z", "+00:00", "+01:00", "-01:00").       *)
(*   - A float score n/d is the pair [num |-> n, den |-> d].               *)
(*   - A call that can raise returns [raised |-> BOOLEAN, val |-> ...].    *)
(***************************************************************************)
EXTENDS Integers, Sequences, FiniteSets, TLC

VARIABLES
    state,          \* the OSINTState handed to advanced_analysis_node
    result,         \* outcome of the advanced_analysis_node call
    activities1,    \* first argument of _calculate_temporal_correlation
    activities2,    \* second argument of _calculate_temporal_correlation
    corr,           \* outcome of the _calculate_temporal_correlation call
    timestamps,     \* argument of _find_activity_clusters / _find_cross_platform_correlations
    clustersOut,    \* outcome of the _find_activity_clusters call
    correlationsOut, \* outcome of the _find_cross_platform_correlations call
    connectionsOut, \* outcome of the _map_platform_connections call on the state
    route,          \* outcome of the should_run_advanced_analysis call on the state
    identifierSet,  \* argument of _analyze_username_consistency
    consistencyOut, \* outcome of the _analyze_username_consistency call
    wfState,        \* the OSINTState channels of a workflow run
    wfTask,         \* the nodes of the current superstep and how far each got
    wfWrites,       \* the updates returned in the current superstep, not yet merged
    wfPhase,        \* "idle", "running", "ended" or "failed"
    wfLog,          \* the node starts and ends of the run, in order
    processing,     \* st.session_state.processing
    report_content, \* st.session_state.report_content
    latest_report_file, \* st.session_state.latest_report_file
    target_input,   \* st.session_state.target_input
    handlers,       \* number of StreamlitLogHandlers on the root logger
    uiPc,           \* position of the Streamlit script
    workflowsCreated, \* number of create_workflow() calls made by the script
    errorShown      \* the validation error is on the page

nodeVars == <<state, result, connectionsOut, route>>
corrVars == <<activities1, activities2, corr>>
tlVars   == <<timestamps, clustersOut, correlationsOut>>
userVars == <<identifierSet, consistencyOut>>
wfVars   == <<wfState, wfTask, wfWrites, wfPhase, wfLog>>
uiVars   == <<processing, report_content, latest_report_file, target_input,
              handlers, uiPc, workflowsCreated, errorShown>>
vars     == <<state, result, activities1, activities2, corr,
              timestamps, clustersOut, correlationsOut,
              connectionsOut, route, identifierSet, consistencyOut,
              wfVars, uiVars>>

----------------------------------------------------------------------------
(* Bounds of the model *)

MaxActs == 2        \* longest activity list given to _calculate_temporal_correlation
MaxTs == 3          \* longest timestamps list given to the timeline helpers
MaxGoogle == 1      \* most items in google_data
MaxSocial == 2      \* most items in social_data
MaxIds == 3         \* most identifiers given to _analyze_username_consistency
MaxRuns == 3        \* most clicks on Start Investigation in one session

----------------------------------------------------------------------------
(* Python values *)

None == <<>>
Some(v) == <<v>>
IsNone(o) == o = <<>>
Get(o) == o[1]

Range(s) == {s[i] : i \in 1..Len(s)}

\* str / int / list values of the loosely typed fields
Str(toks) == [ty |-> "str", s |-> toks]
Word(w) == Str(<<w>>)
IntVal == [ty |-> "int", s |-> <<>>]
ListVal == [ty |-> "list", s |-> <<>>]

\* hash(v): a list is unhashable (TypeError), str and int are hashable
Hashable(v) == v.ty # "list"

\* bool(v) for a str: the empty string is falsy
Truthy(v) == IF v.ty = "str" THEN v.s # <<>> ELSE TRUE

\* some fixed enumeration of a finite set (the order of list(set(...)))
RECURSIVE SetToSeq(_)
SetToSeq(S) ==
    IF S = {} THEN <<>>
    ELSE LET x == CHOOSE y \in S : TRUE
         IN <<x>> \o SetToSeq(S \ {x})

----------------------------------------------------------------------------
(* Timestamps: datetime.fromisoformat(ts.replace('Z', '+00:00')) *)

SecondsPerDay == 86400

Iso(day, sec, suffix) == [k |-> "iso", day |-> day, sec |-> sec, suffix |-> suffix]
BadStamp == [k |-> "bad", day |-> 0, sec |-> 0, suffix |-> ""]       \* "not-a-date"
NonStrStamp == [k |-> "nonstr", day |-> 0, sec |-> 0, suffix |-> ""] \* an int, None

\* str.replace('Z', '+00:00'); a non-str value has no replace (AttributeError)
ReplaceZ(v) ==
    IF v.k = "nonstr" THEN [raised |-> TRUE, val |-> v]
    ELSE IF v.k = "iso" /\ v.suffix = "Z"
         THEN [raised |-> FALSE, val |-> [v EXCEPT !.suffix = "+00:00"]]
         ELSE [raised |-> FALSE, val |-> v]

OffsetSeconds(suffix) ==
    CASE suffix = "+00:00" -> 0
      [] suffix = "+01:00" -> 3600
      [] suffix = "-01:00" -> -3600
      [] OTHER -> 0

NoDatetime == [day |-> 0, sec |-> 0, aware |-> FALSE, off |-> 0]

\* datetime.fromisoformat: ValueError unless the string is an ISO datetime;
\* no suffix gives a naive datetime, an offset suffix an aware one
FromIsoFormat(s) ==
    IF s.k = "iso" /\ s.suffix # "Z"
    THEN [raised |-> FALSE,
          val |-> [day |-> s.day, sec |-> s.sec,
                   aware |-> s.suffix # "",
                   off |-> OffsetSeconds(s.suffix)]]
    ELSE [raised |-> TRUE, val |-> NoDatetime]

\* ts['timestamp'] then the parse, as inside the try blocks:
\* KeyError (no key), AttributeError, ValueError all end the try
ParseTimestamp(entry) ==
    IF IsNone(entry.timestamp) THEN [raised |-> TRUE, val |-> NoDatetime]
    ELSE LET r == ReplaceZ(Get(entry.timestamp))
         IN IF r.raised THEN [raised |-> TRUE, val |-> NoDatetime]
            ELSE FromIsoFormat(r.val)

\* seconds since the model's epoch of the instant an aware datetime denotes,
\* of the wall clock reading for a naive one
Seconds(dt) == dt.day * SecondsPerDay + dt.sec - (IF dt.aware THEN dt.off ELSE 0)

\* (dt1 - dt2).total_seconds(); naive minus aware is a TypeError
TotalSecondsDiff(dt1, dt2) ==
    IF dt1.aware # dt2.aware THEN [raised |-> TRUE, val |-> 0]
    ELSE [raised |-> FALSE, val |-> Seconds(dt1) - Seconds(dt2)]

Abs(x) == IF x < 0 THEN -x ELSE x

\* dt.strftime('%Y-%m-%d'): the date fields of the datetime as written
StrfDate(dt) == dt.day

----------------------------------------------------------------------------
(* _calculate_temporal_correlation *)

Within24hLeq(secs) == Abs(secs) <= SecondsPerDay

\* a variant that forgets the abs()
Within24hSigned(secs) == secs < SecondsPerDay

\* a variant that does not count two equal instants as close
Within24hNonZero(secs) == 0 < Abs(secs) /\ Abs(secs) < SecondsPerDay

\* abs(...) < 86400
Within24h(secs) == Abs(secs) < SecondsPerDay

\* the body of the try block for one pair: TRUE iff correlations += 1 runs
PairCorrelated(a1, a2) ==
    LET p1 == ParseTimestamp(a1)
        p2 == ParseTimestamp(a2)
    IN IF p1.raised \/ p2.raised THEN FALSE
       ELSE LET d == TotalSecondsDiff(p1.val, p2.val)
            IN IF d.raised THEN FALSE ELSE Within24h(d.val)

\* a variant that counts a comparison once per outer iteration only
RECURSIVE CorrelationLoopCountsOuter(_, _, _, _, _)
CorrelationLoopCountsOuter(acts1, acts2, i, j, acc) ==
    IF i > Len(acts1) THEN acc
    ELSE IF j > Len(acts2) THEN CorrelationLoopCountsOuter(acts1, acts2, i + 1, 1, acc)
    ELSE LET total == acc.total_comparisons + (IF j = 1 THEN 1 ELSE 0)
             hit == PairCorrelated(acts1[i], acts2[j])
         IN CorrelationLoopCountsOuter(acts1, acts2, i, j + 1,
                [correlations |-> acc.correlations + (IF hit THEN 1 ELSE 0),
                 total_comparisons |-> total])

\* the nested for loops; acc = [correlations, total_comparisons]
RECURSIVE CorrelationLoop(_, _, _, _, _)
CorrelationLoop(acts1, acts2, i, j, acc) ==
    IF i > Len(acts1) THEN acc
    ELSE IF j > Len(acts2) THEN CorrelationLoop(acts1, acts2, i + 1, 1, acc)
    ELSE LET total == acc.total_comparisons + 1
             hit == PairCorrelated(acts1[i], acts2[j])
         IN CorrelationLoop(acts1, acts2, i, j + 1,
                [correlations |-> acc.correlations + (IF hit THEN 1 ELSE 0),
                 total_comparisons |-> total])

ZeroAsOne == [num |-> 1, den |-> 1]

\* 0.0
Zero == [num |-> 0, den |-> 1]

CalculateTemporalCorrelation(acts1, acts2) ==
    IF acts1 = <<>> \/ acts2 = <<>> THEN Zero
    ELSE LET acc == CorrelationLoop(acts1, acts2, 1, 1,
                        [correlations |-> 0, total_comparisons |-> 0])
         IN IF acc.total_comparisons > 0
            THEN [num |-> acc.correlations, den |-> acc.total_comparisons]
            ELSE Zero

----------------------------------------------------------------------------
(* dicts that keep insertion order: a sequence of [key, items] *)

HasDictKey(d, k) == \E i \in 1..Len(d) : d[i].key = k

DictIndex(d, k) == CHOOSE i \in 1..Len(d) : d[i].key = k

\* if k not in d: d[k] = [];  d[k].append(v)
DictAppend(d, k, v) ==
    IF HasDictKey(d, k)
    THEN [d EXCEPT ![DictIndex(d, k)].items = Append(@, v)]
    ELSE Append(d, [key |-> k, items |-> <<v>>])

----------------------------------------------------------------------------
(* _find_activity_clusters *)

\* an entry of the timestamps list
Entry(platform, timestamp, content_type) ==
    [platform |-> platform, timestamp |-> timestamp, content_type |-> content_type]

\* a variant whose except clause files the record under a day of its own
RECURSIVE ClusterLoopKeepsMalformed(_, _, _)
ClusterLoopKeepsMalformed(ts, i, clusters) ==
    IF i > Len(ts) THEN clusters
    ELSE LET p == ParseTimestamp(ts[i])
         IN ClusterLoopKeepsMalformed(ts, i + 1,
                DictAppend(clusters, IF p.raised THEN -1 ELSE StrfDate(p.val), ts[i]))

\* a variant that opens a new cluster for every record
RECURSIVE ClusterLoopNoMerge(_, _, _)
ClusterLoopNoMerge(ts, i, clusters) ==
    IF i > Len(ts) THEN clusters
    ELSE LET p == ParseTimestamp(ts[i])
         IN IF p.raised THEN ClusterLoopNoMerge(ts, i + 1, clusters)
            ELSE ClusterLoopNoMerge(ts, i + 1,
                    Append(clusters, [key |-> StrfDate(p.val), items |-> <<ts[i]>>]))

\* the for loop with its try/except: continue
RECURSIVE ClusterLoop(_, _, _)
ClusterLoop(ts, i, clusters) ==
    IF i > Len(ts) THEN clusters
    ELSE LET p == ParseTimestamp(ts[i])
         IN IF p.raised THEN ClusterLoop(ts, i + 1, clusters)
            ELSE ClusterLoop(ts, i + 1, DictAppend(clusters, StrfDate(p.val), ts[i]))

\* item['platform'] and its insertion into a set: KeyError, or TypeError
\* for an unhashable platform
PlatformRaises(entry) ==
    IsNone(entry.platform) \/ ~Hashable(Get(entry.platform))

FindActivityClusters(ts) ==
    IF ts = <<>> THEN [raised |-> FALSE, val |-> <<>>]
    ELSE LET clusters == ClusterLoop(ts, 1, <<>>)
         IN IF \E c \in 1..Len(clusters) :
                   \E it \in Range(clusters[c].items) : PlatformRaises(it)
            THEN [raised |-> TRUE, val |-> <<>>]
            ELSE [raised |-> FALSE,
                  val |-> [c \in 1..Len(clusters) |->
                      [date |-> clusters[c].key,
                       activity_count |-> Len(clusters[c].items),
                       platforms |-> SetToSeq({Get(it.platform) :
                                                 it \in Range(clusters[c].items)})]]]

----------------------------------------------------------------------------
(* _find_cross_platform_correlations *)

\* the grouping loop; reached only when no ts['platform'] raises
RECURSIVE GroupByPlatform(_, _, _)
GroupByPlatform(ts, i, by_platform) ==
    IF i > Len(ts) THEN by_platform
    ELSE GroupByPlatform(ts, i + 1,
            DictAppend(by_platform, Get(ts[i].platform), ts[i]))

\* correlation > 0
Positive(score) == score.num > 0

FirstPartnerSelf(i) == i

\* platforms[i+1:] starts at the platform after p1
FirstPartner(i) == i + 1

\* for i, p1 in enumerate(platforms): for p2 in platforms[i+1:]
RECURSIVE PairLoop(_, _, _, _)
PairLoop(by_platform, i, j, correlations) ==
    IF i > Len(by_platform) THEN correlations
    ELSE IF j > Len(by_platform)
         THEN PairLoop(by_platform, i + 1, FirstPartner(i + 1), correlations)
    ELSE LET correlation == CalculateTemporalCorrelation(
                                by_platform[i].items, by_platform[j].items)
         IN PairLoop(by_platform, i, j + 1,
                IF Positive(correlation)
                THEN Append(correlations,
                        [platform_1 |-> by_platform[i].key,
                         platform_2 |-> by_platform[j].key,
                         correlation_score |-> correlation])
                ELSE correlations)

FindCrossPlatformCorrelations(ts) ==
    IF \E i \in 1..Len(ts) : PlatformRaises(ts[i])
    THEN [raised |-> TRUE, val |-> <<>>]
    ELSE LET by_platform == GroupByPlatform(ts, 1, <<>>)
         IN [raised |-> FALSE,
             val |-> PairLoop(by_platform, 1, FirstPartner(1), <<>>)]

----------------------------------------------------------------------------
(* Items of google_data and social_data *)

NoFields == [timestamp |-> None, platform |-> None, type |-> None,
             username |-> None, email |-> None, profile_url |-> None]

\* a raw text blob; words = the field names that occur in its text
Blob(words) == [kind |-> "blob", words |-> words, f |-> NoFields]

\* a mapping with the given optional fields
Mapping(f) == [kind |-> "map", words |-> {}, f |-> f]

\* key in item: a substring test on a str, a key test on a mapping
Contains(item, key) ==
    IF item.kind = "blob" THEN key \in item.words ELSE ~IsNone(item.f[key])

\* item[key]: a str indexed by a str is a TypeError
Subscript(item, key) ==
    IF item.kind = "blob" THEN [raised |-> TRUE, val |-> None]
    ELSE [raised |-> FALSE, val |-> item.f[key]]

\* item.get(key, default) on a mapping
GetOr(item, key, default) ==
    IF IsNone(item.f[key]) THEN default ELSE Get(item.f[key])

----------------------------------------------------------------------------
(* _analyze_timeline_correlation *)

\* the two extraction loops: [raised, val = the timestamps list]
RECURSIVE ExtractGoogleTimestamps(_, _, _)
ExtractGoogleTimestamps(data, i, acc) ==
    IF i > Len(data) THEN [raised |-> FALSE, val |-> acc]
    ELSE IF ~Contains(data[i], "timestamp")
         THEN ExtractGoogleTimestamps(data, i + 1, acc)
    ELSE IF Subscript(data[i], "timestamp").raised
         THEN [raised |-> TRUE, val |-> acc]
    ELSE ExtractGoogleTimestamps(data, i + 1,
            Append(acc, Entry(Some(Word("google")),
                              Subscript(data[i], "timestamp").val,
                              Some(Word("search_result")))))

RECURSIVE ExtractSocialTimestamps(_, _, _)
ExtractSocialTimestamps(data, i, acc) ==
    IF i > Len(data) THEN [raised |-> FALSE, val |-> acc]
    ELSE IF ~Contains(data[i], "timestamp")
         THEN ExtractSocialTimestamps(data, i + 1, acc)
    ELSE IF Subscript(data[i], "timestamp").raised
         THEN [raised |-> TRUE, val |-> acc]
    ELSE ExtractSocialTimestamps(data, i + 1,
            Append(acc, Entry(Some(GetOr(data[i], "platform", Word("unknown"))),
                              Subscript(data[i], "timestamp").val,
                              Some(GetOr(data[i], "type", Word("post"))))))

NoTimeline == [total_timestamped_items |-> 0,
               platforms_with_timestamps |-> <<>>,
               activity_clusters |-> <<>>,
               cross_platform_correlations |-> <<>>]

AnalyzeTimelineCorrelation(st) ==
    LET g == ExtractGoogleTimestamps(st.google_data, 1, <<>>)
        s == ExtractSocialTimestamps(st.social_data, 1, g.val)
        ts == s.val
        clusters == FindActivityClusters(ts)
        correlations == FindCrossPlatformCorrelations(ts)
    IN IF g.raised \/ s.raised THEN [raised |-> TRUE, val |-> NoTimeline]
       \* set(t['platform'] for t in timestamps)
       ELSE IF \E i \in 1..Len(ts) : PlatformRaises(ts[i])
            THEN [raised |-> TRUE, val |-> NoTimeline]
       ELSE IF clusters.raised \/ correlations.raised
            THEN [raised |-> TRUE, val |-> NoTimeline]
       ELSE [raised |-> FALSE,
             val |-> [total_timestamped_items |-> Len(ts),
                      platforms_with_timestamps |->
                          SetToSeq({Get(ts[i].platform) : i \in 1..Len(ts)}),
                      activity_clusters |-> clusters.val,
                      cross_platform_correlations |-> correlations.val]]

----------------------------------------------------------------------------
(* _analyze_username_consistency *)

\* sub in id, for a str id whose tokens isolate every occurrence of sub
HasToken(id, sub) == sub \in Range(id.s)

\* a variant that tests only for '@'
IsUsernameIgnoresHttp(id) == ~HasToken(id, "@")

\* a variant that classifies by shape: an email has a domain after '@',
\* a URL begins with http
IsUsernameByShape(id) ==
    /\ ~(\E i \in 1..(Len(id.s) - 1) : id.s[i] = "@" /\ id.s[i + 1] = "example.com")
    /\ ~(Len(id.s) >= 1 /\ id.s[1] = "http")

\* id survives "not '@' in id and not 'http' in id"
IsUsername(id) == ~HasToken(id, "@") /\ ~HasToken(id, "http")

\* usernames.count(x)
Count(seq, x) == Cardinality({i \in 1..Len(seq) : seq[i] = x})

NoConsistency == [consistency_score |-> Zero, common_patterns |-> <<>>,
                  total_usernames |-> None]

\* a variant that scores one base name over the number of usernames
AnalyzeUsernameConsistencyOneBase(identifiers) ==
    IF \E id \in identifiers : id.ty # "str"
    THEN [raised |-> TRUE, val |-> NoConsistency]
    ELSE LET usernames == SetToSeq({id \in identifiers : IsUsername(id)})
         IN IF usernames = <<>>
            THEN [raised |-> FALSE, val |-> NoConsistency]
            ELSE [raised |-> FALSE,
                  val |-> [consistency_score |-> [num |-> 1, den |-> Len(usernames)],
                           common_patterns |-> <<usernames[1]>>,
                           total_usernames |-> Some(Len(usernames))]]

AnalyzeUsernameConsistency(identifiers) ==
    \* '@' in id is a TypeError for an id that is not a str
    IF \E id \in identifiers : id.ty # "str"
    THEN [raised |-> TRUE, val |-> NoConsistency]
    ELSE LET usernames == SetToSeq({id \in identifiers : IsUsername(id)})
         IN IF usernames = <<>>
            THEN [raised |-> FALSE,
                  val |-> [consistency_score |-> Zero,
                           common_patterns |-> <<>>,
                           total_usernames |-> None]]
            ELSE LET distinct == Range(usernames)
                     \* max(set(usernames), key=usernames.count)
                     common_base == CHOOSE x \in distinct :
                         \A y \in distinct : Count(usernames, x) >= Count(usernames, y)
                 IN [raised |-> FALSE,
                     val |-> [consistency_score |->
                                  [num |-> Cardinality(distinct), den |-> Len(usernames)],
                              common_patterns |->
                                  IF Truthy(common_base) THEN <<common_base>> ELSE <<>>,
                              total_usernames |-> Some(Len(usernames))]]

----------------------------------------------------------------------------
(* _map_platform_connections *)

\* one "if key in item: theset.add(item[key])" over a data list:
\* [raised, val = the set]; item[key] raises on a blob, add on a list value
RECURSIVE CollectField(_, _, _, _)
CollectField(data, key, i, acc) ==
    IF i > Len(data) THEN [raised |-> FALSE, val |-> acc]
    ELSE IF ~Contains(data[i], key) THEN CollectField(data, key, i + 1, acc)
    ELSE IF Subscript(data[i], key).raised THEN [raised |-> TRUE, val |-> acc]
    ELSE IF ~Hashable(Get(data[i].f[key])) THEN [raised |-> TRUE, val |-> acc]
    ELSE CollectField(data, key, i + 1, acc \cup {Get(data[i].f[key])})

\* a variant that does not take the platform itself out of its connections
MapPlatformConnectionsWithSelf(st) ==
    LET g == CollectField(st.google_data, "platform", 1, {})
        s == CollectField(st.social_data, "platform", 1, g.val)
        platforms == s.val
    IN IF g.raised \/ s.raised THEN [raised |-> TRUE, val |-> <<>>]
       ELSE [raised |-> FALSE,
             val |-> [p \in platforms |-> SetToSeq(platforms)]]

MapPlatformConnections(st) ==
    LET g == CollectField(st.google_data, "platform", 1, {})
        s == CollectField(st.social_data, "platform", 1, g.val)
        platforms == s.val
    IN IF g.raised \/ s.raised THEN [raised |-> TRUE, val |-> <<>>]
       ELSE [raised |-> FALSE,
             val |-> [p \in platforms |-> SetToSeq(platforms \ {p})]]

----------------------------------------------------------------------------
(* _analyze_network_connections *)

\* the two "if ... in item: identifiers.add(...)" of one loop body, for a list
RECURSIVE CollectIdentifiers(_, _, _, _, _)
CollectIdentifiers(data, key1, key2, i, acc) ==
    IF i > Len(data) THEN [raised |-> FALSE, val |-> acc]
    ELSE LET one == CollectField(<<data[i]>>, key1, 1, acc)
             two == CollectField(<<data[i]>>, key2, 1, one.val)
         IN IF one.raised \/ two.raised THEN [raised |-> TRUE, val |-> acc]
            ELSE CollectIdentifiers(data, key1, key2, i + 1, two.val)

NoNetwork == [unique_identifiers |-> 0, identifier_list |-> <<>>,
              platform_connections |-> <<>>, username_consistency |-> NoConsistency]

AnalyzeNetworkConnections(st) ==
    LET g == CollectIdentifiers(st.google_data, "username", "email", 1, {})
        s == CollectIdentifiers(st.social_data, "username", "profile_url", 1, g.val)
        identifiers == s.val
        connections == MapPlatformConnections(st)
        consistency == AnalyzeUsernameConsistency(identifiers)
    IN IF g.raised \/ s.raised \/ connections.raised \/ consistency.raised
       THEN [raised |-> TRUE, val |-> NoNetwork]
       ELSE [raised |-> FALSE,
             val |-> [unique_identifiers |-> Cardinality(identifiers),
                      identifier_list |-> SetToSeq(identifiers),
                      platform_connections |-> connections.val,
                      username_consistency |-> consistency.val]]

----------------------------------------------------------------------------
(* advanced_analysis_node *)

\* state['config']: the key missing, None, or a dict whose 'advanced_analysis'
\* is missing, None, or a dict of optional flags
Config(kind, flags) == [kind |-> kind, flags |-> flags]

NoFlags == [timeline_correlation |-> None, network_analysis |-> None,
            deep_content_analysis |-> None]

Flags(t, n, d) == [timeline_correlation |-> Some(t), network_analysis |-> Some(n),
                   deep_content_analysis |-> Some(d)]

AdvancedStrict(config) ==
    IF config.kind = "full"
    THEN [raised |-> FALSE, val |-> config.flags]
    ELSE [raised |-> TRUE, val |-> NoFlags]

\* config = state.get('config', {}); advanced = config.get('advanced_analysis', {})
\* followed by the first advanced.get: None has no get (AttributeError)
Advanced(config) ==
    CASE config.kind = "missing" -> [raised |-> FALSE, val |-> NoFlags]
      [] config.kind = "none" -> [raised |-> TRUE, val |-> NoFlags]
      [] config.kind = "noadv" -> [raised |-> FALSE, val |-> NoFlags]
      [] config.kind = "advnone" -> [raised |-> TRUE, val |-> NoFlags]
      [] OTHER -> [raised |-> FALSE, val |-> config.flags]

\* advanced.get(name, False)
Flag(advanced, name) ==
    IF IsNone(advanced[name]) THEN FALSE ELSE Get(advanced[name])

\* a variant that records in the state that deep analysis was performed
EnhanceContentAnalysisMarks(st) ==
    [st EXCEPT !.google_data = Append(@, Blob({}))]

\* _enhance_content_analysis: pass
EnhanceContentAnalysis(st) == st

Raised == [called |-> TRUE, raised |-> TRUE, timeline_data |-> None,
           network_data |-> None]

\* if advanced.get('timeline_correlation', False)
TimelineGate(advanced) == Flag(advanced, "timeline_correlation")

\* if advanced.get('network_analysis', False)
NetworkGate(advanced) == Flag(advanced, "network_analysis")

AdvancedAnalysisNode(st) ==
    LET advanced == Advanced(st.config)
    IN IF advanced.raised THEN Raised
       ELSE LET timeline == IF TimelineGate(advanced.val)
                            THEN AnalyzeTimelineCorrelation(st)
                            ELSE [raised |-> FALSE, val |-> NoTimeline]
                network == IF NetworkGate(advanced.val)
                           THEN AnalyzeNetworkConnections(st)
                           ELSE [raised |-> FALSE, val |-> NoNetwork]
            IN IF timeline.raised \/ network.raised THEN Raised
               ELSE [called |-> TRUE, raised |-> FALSE,
                     timeline_data |-> IF TimelineGate(advanced.val)
                                       THEN Some(timeline.val) ELSE None,
                     network_data |-> IF NetworkGate(advanced.val)
                                      THEN Some(network.val) ELSE None]

----------------------------------------------------------------------------
(* should_run_advanced_analysis *)

\* a variant whose any() does not see deep_content_analysis
ShouldRunAdvancedAnalysisIgnoresDeep(st) ==
    CASE st.config.kind \in {"none", "advnone"} -> [raised |-> TRUE, val |-> ""]
      [] st.config.kind \in {"missing", "noadv"} -> [raised |-> FALSE, val |-> "report"]
      [] OTHER ->
           [raised |-> FALSE,
            val |-> IF \E name \in DOMAIN st.config.flags \ {"deep_content_analysis"} :
                          /\ ~IsNone(st.config.flags[name])
                          /\ Get(st.config.flags[name])
                    THEN "advanced_analysis" ELSE "report"]

\* None.get and None.values raise; a missing key gives the {} default, and
\* any() of no values is False
ShouldRunAdvancedAnalysis(st) ==
    CASE st.config.kind \in {"none", "advnone"} -> [raised |-> TRUE, val |-> ""]
      [] st.config.kind \in {"missing", "noadv"} -> [raised |-> FALSE, val |-> "report"]
      [] OTHER ->
           [raised |-> FALSE,
            val |-> IF \E name \in DOMAIN st.config.flags :
                          /\ ~IsNone(st.config.flags[name])
                          /\ Get(st.config.flags[name])
                    THEN "advanced_analysis" ELSE "report"]

----------------------------------------------------------------------------
(* Input values the specifications draw from *)

T0 == Iso(15, 0, "Z")               \* 2024-01-15T00:00:00Z
T1 == Iso(15, 86399, "Z")           \* 2024-01-15T23:59:59Z, 86399 s after T0
T2 == Iso(16, 0, "+00:00")          \* 2024-01-16T00:00:00+00:00, 86400 s after T0
T3 == Iso(16, 0, "+01:00")          \* 2024-01-16T00:00:00+01:00 = 2024-01-15T23:00:00Z
T4 == Iso(17, 0, "Z")               \* 2024-01-17T00:00:00Z
TNaive == Iso(15, 0, "")            \* 2024-01-15T00:00:00

JohnDoe == Word("johndoe")
JohnEmail == Str(<<"john", "@", "example.com">>)
JohnUrl == Str(<<"http", "s://github.com/", "johndoe">>)

\* activities as the unit tests pass them: only a timestamp, if that
Activity(timestamp) == Entry(None, timestamp, None)

Activities ==
    {Activity(Some(t)) : t \in {T0, T1, T2, T3, TNaive, BadStamp, NonStrStamp}}

Platforms == {Word("google"), Word("twitter"), Word("github")}

TimestampEntries ==
    {Entry(Some(p), Some(t), Some(Word("post"))) :
        p \in Platforms, t \in {T0, T1, T3, T4, BadStamp}}

GoogleItems ==
    { Blob({}),
      Blob({"timestamp"}),
      Mapping([NoFields EXCEPT !.timestamp = Some(T0),
                               !.platform = Some(Word("linkedin"))]),
      Mapping([NoFields EXCEPT !.timestamp = Some(BadStamp),
                               !.username = Some(JohnDoe),
                               !.email = Some(JohnEmail)]),
      Mapping([NoFields EXCEPT !.username = Some(ListVal)]) }

SocialItems ==
    { Blob({}),
      Blob({"platform"}),
      Mapping([NoFields EXCEPT !.platform = Some(Word("twitter")),
                               !.timestamp = Some(T0),
                               !.username = Some(JohnDoe),
                               !.profile_url = Some(JohnUrl)]),
      Mapping([NoFields EXCEPT !.platform = Some(Word("github")),
                               !.timestamp = Some(T1),
                               !.type = Some(Word("comment")),
                               !.username = Some(JohnDoe)]),
      Mapping([NoFields EXCEPT !.timestamp = Some(NonStrStamp)]),
      Mapping([NoFields EXCEPT !.platform = Some(ListVal),
                               !.timestamp = Some(T4)]),
      Mapping([NoFields EXCEPT !.username = Some(IntVal)]) }

Configs ==
    {Config(k, NoFlags) : k \in {"missing", "none", "noadv", "advnone", "full"}}
    \cup {Config("full", Flags(t, n, d)) : t \in BOOLEAN, n \in BOOLEAN, d \in BOOLEAN}

----------------------------------------------------------------------------
(* Initial values *)

NotCalledNode == [called |-> FALSE, raised |-> FALSE, timeline_data |-> None,
                  network_data |-> None]
NotCalledCorr == [called |-> FALSE, val |-> Zero]
NotCalledList == [called |-> FALSE, raised |-> FALSE, val |-> <<>>]

NotCalledMap == [called |-> FALSE, raised |-> FALSE, val |-> <<>>]
NotCalledRoute == [called |-> FALSE, raised |-> FALSE, val |-> ""]
NotCalledConsistency == [called |-> FALSE, raised |-> FALSE, val |-> NoConsistency]

NodeIdle ==
    /\ state = [config |-> Config("full", NoFlags), google_data |-> <<>>,
                social_data |-> <<>>]
    /\ result = NotCalledNode
    /\ connectionsOut = NotCalledMap
    /\ route = NotCalledRoute

UserIdle ==
    /\ identifierSet = {}
    /\ consistencyOut = NotCalledConsistency

CorrIdle ==
    /\ activities1 = <<>>
    /\ activities2 = <<>>
    /\ corr = NotCalledCorr

TimelineIdle ==
    /\ timestamps = <<>>
    /\ clustersOut = NotCalledList
    /\ correlationsOut = NotCalledList

\* the channels before any input: the lists of the operator.add channels
\* are empty, every other channel is unset
NoState == [config |-> Config("missing", NoFlags), google_data |-> <<>>,
            social_data |-> <<>>, analysis |-> None, report |-> None,
            timeline_data |-> None, network_data |-> None]

WorkflowIdle ==
    /\ wfState = NoState
    /\ wfTask = <<>>
    /\ wfWrites = <<>>
    /\ wfPhase = "idle"
    /\ wfLog = <<>>

\* main()'s initialisation of the session state, before any click
UiIdle ==
    /\ processing = FALSE
    /\ report_content = None
    /\ latest_report_file = None
    /\ target_input = <<>>
    /\ handlers = 0
    /\ uiPc = "waiting"
    /\ workflowsCreated = 0
    /\ errorShown = FALSE

----------------------------------------------------------------------------
(* The node: data is collected into the state, then the node is called *)

Init ==
    /\ state \in [config : Configs, google_data : {<<>>}, social_data : {<<>>}]
    /\ result = NotCalledNode
    /\ connectionsOut = NotCalledMap
    /\ route = NotCalledRoute
    /\ CorrIdle
    /\ TimelineIdle
    /\ UserIdle
    /\ WorkflowIdle
    /\ UiIdle

\* no function has been applied to the state yet
NoCallYet == ~result.called /\ ~connectionsOut.called /\ ~route.called

\* google_node's update, merged by operator.add
GoogleAppend(item) ==
    /\ NoCallYet
    /\ Len(state.google_data) < MaxGoogle
    /\ state' = [state EXCEPT !.google_data = Append(@, item)]
    /\ UNCHANGED <<result, connectionsOut, route, corrVars, tlVars, userVars, wfVars, uiVars>>

\* social_node's update, merged by operator.add
SocialAppend(item) ==
    /\ NoCallYet
    /\ Len(state.social_data) < MaxSocial
    /\ state' = [state EXCEPT !.social_data = Append(@, item)]
    /\ UNCHANGED <<result, connectionsOut, route, corrVars, tlVars, userVars, wfVars, uiVars>>

CallAdvancedAnalysisNode ==
    /\ NoCallYet
    /\ result' = AdvancedAnalysisNode(state)
    /\ state' = IF ~result'.raised /\ Flag(Advanced(state.config).val, "deep_content_analysis")
                THEN EnhanceContentAnalysis(state)
                ELSE state
    /\ UNCHANGED <<connectionsOut, route, corrVars, tlVars, userVars, wfVars, uiVars>>

Next ==
    \/ \E item \in GoogleItems : GoogleAppend(item)
    \/ \E item \in SocialItems : SocialAppend(item)
    \/ CallAdvancedAnalysisNode

Spec == Init /\ [][Next]_vars

----------------------------------------------------------------------------
(* _calculate_temporal_correlation called on two activity lists *)

InitCorr == NodeIdle /\ CorrIdle /\ TimelineIdle /\ UserIdle /\ WorkflowIdle /\ UiIdle

AppendActivity1(a) ==
    /\ ~corr.called
    /\ Len(activities1) < MaxActs
    /\ activities1' = Append(activities1, a)
    /\ UNCHANGED <<activities2, corr, nodeVars, tlVars, userVars, wfVars, uiVars>>

AppendActivity2(a) ==
    /\ ~corr.called
    /\ Len(activities2) < MaxActs
    /\ activities2' = Append(activities2, a)
    /\ UNCHANGED <<activities1, corr, nodeVars, tlVars, userVars, wfVars, uiVars>>

CallCalculateTemporalCorrelation ==
    /\ ~corr.called
    /\ corr' = [called |-> TRUE,
                val |-> CalculateTemporalCorrelation(activities1, activities2)]
    /\ UNCHANGED <<activities1, activities2, nodeVars, tlVars, userVars, wfVars, uiVars>>

NextCorr ==
    \/ \E a \in Activities : AppendActivity1(a)
    \/ \E a \in Activities : AppendActivity2(a)
    \/ CallCalculateTemporalCorrelation

SpecCorr == InitCorr /\ [][NextCorr]_vars

----------------------------------------------------------------------------
(* _find_activity_clusters and _find_cross_platform_correlations called on
   a timestamps list *)

InitTimeline == NodeIdle /\ CorrIdle /\ TimelineIdle /\ UserIdle /\ WorkflowIdle /\ UiIdle

AppendTimestamp(e) ==
    /\ ~clustersOut.called
    /\ ~correlationsOut.called
    /\ Len(timestamps) < MaxTs
    /\ timestamps' = Append(timestamps, e)
    /\ UNCHANGED <<clustersOut, correlationsOut, nodeVars, corrVars, userVars, wfVars, uiVars>>

CallFindActivityClusters ==
    /\ ~clustersOut.called
    /\ clustersOut' = [called |-> TRUE,
                       raised |-> FindActivityClusters(timestamps).raised,
                       val |-> FindActivityClusters(timestamps).val]
    /\ UNCHANGED <<timestamps, correlationsOut, nodeVars, corrVars, userVars, wfVars, uiVars>>

CallFindCrossPlatformCorrelations ==
    /\ ~correlationsOut.called
    /\ correlationsOut' = [called |-> TRUE,
                           raised |-> FindCrossPlatformCorrelations(timestamps).raised,
                           val |-> FindCrossPlatformCorrelations(timestamps).val]
    /\ UNCHANGED <<timestamps, clustersOut, nodeVars, corrVars, userVars, wfVars, uiVars>>

NextTimeline ==
    \/ \E e \in TimestampEntries : AppendTimestamp(e)
    \/ CallFindActivityClusters
    \/ CallFindCrossPlatformCorrelations

SpecTimeline == InitTimeline /\ [][NextTimeline]_vars

----------------------------------------------------------------------------
(* Vocabulary of the properties, stated on the inputs themselves *)

\* the entry carries a timestamp string in ISO format
WellFormed(e) == ~IsNone(e.timestamp) /\ Get(e.timestamp).k = "iso"

StampAware(t) == t.suffix # ""

StampOffset(t) ==
    CASE t.suffix = "+01:00" -> 3600
      [] t.suffix = "-01:00" -> -3600
      [] OTHER -> 0

\* the instant a zoned timestamp denotes (its wall clock reading if unzoned)
StampSeconds(t) == t.day * 86400 + t.sec - (IF StampAware(t) THEN StampOffset(t) ELSE 0)

\* the two timestamps have a difference: both zoned or both unzoned
GapDefined(a, b) ==
    /\ WellFormed(a) /\ WellFormed(b)
    /\ StampAware(Get(a.timestamp)) = StampAware(Get(b.timestamp))

Gap(a, b) == Abs(StampSeconds(Get(a.timestamp)) - StampSeconds(Get(b.timestamp)))

AllPairs(A, B) == (1..Len(A)) \X (1..Len(B))

ClosePairs(A, B) ==
    {p \in AllPairs(A, B) : GapDefined(A[p[1]], B[p[2]]) /\ Gap(A[p[1]], B[p[2]]) < 86400}

ParsedPairs(A, B) ==
    {p \in AllPairs(A, B) : WellFormed(A[p[1]]) /\ WellFormed(B[p[2]])}

AllWellFormed(A) == \A i \in 1..Len(A) : WellFormed(A[i])

\* the flags object is there: config and its advanced_analysis section are dicts
FlagsPresent == state.config.kind = "full"

FlagOn(name) == Flag(state.config.flags, name)

----------------------------------------------------------------------------
(* C1: advanced_analysis_node never raises for data-quality reasons: with
   the flags object present, whatever blobs and mappings the data lists
   hold, the call returns. *)
C1_NeverRaisesOnData ==
    (result.called /\ FlagsPresent) => ~result.raised

(* C2: flag gating: a false flag gives None for its output and a true flag
   gives a mapping, for any collected data and any deep_content_analysis. *)
C2_FlagGating ==
    (result.called /\ FlagsPresent) =>
        /\ ~FlagOn("timeline_correlation") => IsNone(result.timeline_data)
        /\ ~FlagOn("network_analysis") => IsNone(result.network_data)
        /\ FlagOn("timeline_correlation") =>
               (~result.raised /\ ~IsNone(result.timeline_data))
        /\ FlagOn("network_analysis") =>
               (~result.raised /\ ~IsNone(result.network_data))

\* the node run on the current data under the given three flags
RunWith(t, n, d) ==
    AdvancedAnalysisNode([state EXCEPT !.config = Config("full", Flags(t, n, d))])

(* C3: flag independence: for fixed data, network_data is the same whether
   timeline_correlation is on or off, and timeline_data is the same whether
   network_analysis is on or off. *)
C3_FlagIndependence ==
    \A t \in BOOLEAN, n \in BOOLEAN, d \in BOOLEAN :
        /\ RunWith(TRUE, n, d).network_data = RunWith(FALSE, n, d).network_data
        /\ RunWith(t, TRUE, d).timeline_data = RunWith(t, FALSE, d).timeline_data

\* the flags object is absent: no config key, or no advanced_analysis section
FlagsAbsent == state.config.kind \in {"missing", "noadv"}

(* C4 as stated: with the flags object absent the node propagates an error. *)
C4_AbsentFlagsAreFatal ==
    (result.called /\ FlagsAbsent) => result.raised

(* C4 as amended: with the flags object absent the node does not raise; it
   takes every flag as false and returns None for both outputs. *)
C4_AbsentFlagsDefaultToDisabled ==
    (result.called /\ FlagsAbsent) =>
        /\ ~result.raised
        /\ IsNone(result.timeline_data)
        /\ IsNone(result.network_data)

C4_Witness ==
    /\ result.called
    /\ state.config.kind = "missing"
    /\ state.google_data # <<>>
    /\ state.social_data # <<>>
    /\ ~result.raised

----------------------------------------------------------------------------
(* C5: the 24-hour boundary is strict: for two single-record lists the score
   is 1.0 when the timestamps are less than 86,400 seconds apart (86,399
   included) and 0.0 when they are 86,400 seconds or more apart. *)
C5_StrictBoundary ==
    (/\ corr.called
     /\ Len(activities1) = 1 /\ Len(activities2) = 1
     /\ GapDefined(activities1[1], activities2[1])) =>
        /\ Gap(activities1[1], activities2[1]) <= 86399 =>
               (corr.val.num = 1 /\ corr.val.den = 1)
        /\ Gap(activities1[1], activities2[1]) >= 86400 => corr.val.num = 0

C5_Witness ==
    /\ corr.called
    /\ Len(activities1) = 1 /\ Len(activities2) = 1
    /\ GapDefined(activities1[1], activities2[1])
    /\ Gap(activities1[1], activities2[1]) = 86400
    /\ corr.val.num = 0

(* C6: a comparison with a malformed timestamp is dropped from numerator and
   denominator: the score is (pairs within 24h) / (pairs whose two
   timestamps both parse). *)
C6_MalformedLeavesDenominator ==
    (corr.called /\ ParsedPairs(activities1, activities2) # {}) =>
        corr.val.num * Cardinality(ParsedPairs(activities1, activities2))
            = Cardinality(ClosePairs(activities1, activities2)) * corr.val.den

(* C7: for two non-empty lists of well-formed timestamps the score is the
   number of pairs less than 24h apart divided by len(list 1) * len(list 2),
   and lies in [0, 1]. *)
C7_ScoreIsClosePairsOverAllPairs ==
    (/\ corr.called
     /\ activities1 # <<>> /\ activities2 # <<>>
     /\ AllWellFormed(activities1) /\ AllWellFormed(activities2)) =>
        /\ corr.val.den > 0
        /\ corr.val.num * (Len(activities1) * Len(activities2))
               = Cardinality(ClosePairs(activities1, activities2)) * corr.val.den
        /\ 0 <= corr.val.num /\ corr.val.num <= corr.val.den

C7_Witness ==
    /\ corr.called
    /\ Len(activities1) = 2 /\ Len(activities2) = 2
    /\ AllWellFormed(activities1) /\ AllWellFormed(activities2)
    /\ 0 < corr.val.num /\ corr.val.num < corr.val.den

----------------------------------------------------------------------------
(* Vocabulary of the timeline properties *)

PlatformOf(e) == Get(e.platform)

PlatformsIn(ts) == {PlatformOf(ts[i]) : i \in 1..Len(ts)}

\* the entries of one platform, in input order
IsOfPlatform(e, p) == PlatformOf(e) = p
RECURSIVE EntriesOf(_, _)
EntriesOf(ts, p) ==
    IF ts = <<>> THEN <<>>
    ELSE IF IsOfPlatform(Head(ts), p)
         THEN <<Head(ts)>> \o EntriesOf(Tail(ts), p)
         ELSE EntriesOf(Tail(ts), p)

\* the unordered platform pair of a correlation entry
PairOf(c) == {c.platform_1, c.platform_2}

\* the positions of the records whose timestamp parses
Parseable(ts) == {i \in 1..Len(ts) : WellFormed(ts[i])}

\* the calendar date written in a well-formed timestamp
DateOf(e) == Get(e.timestamp).day

DatesIn(ts) == {DateOf(ts[i]) : i \in Parseable(ts)}

OnDate(ts, d) == {i \in Parseable(ts) : DateOf(ts[i]) = d}

RECURSIVE SumActivityCounts(_)
SumActivityCounts(cs) ==
    IF cs = <<>> THEN 0 ELSE Head(cs).activity_count + SumActivityCounts(Tail(cs))

----------------------------------------------------------------------------
(* C8: _find_cross_platform_correlations emits at most one entry per
   unordered pair of distinct platforms, no self-pair, never both orders,
   and an entry for a pair exactly when the pair's score is positive, that
   is when some record of one is less than 24h from some record of the
   other. *)
C8_OneEntryPerCorrelatedPair ==
    correlationsOut.called =>
        LET cs == correlationsOut.val IN
        /\ ~correlationsOut.raised
        /\ \A i \in 1..Len(cs) :
               /\ cs[i].platform_1 # cs[i].platform_2
               /\ PairOf(cs[i]) \subseteq PlatformsIn(timestamps)
               /\ cs[i].correlation_score.num > 0
        /\ \A i \in 1..Len(cs), j \in 1..Len(cs) :
               i # j => PairOf(cs[i]) # PairOf(cs[j])
        /\ \A p \in PlatformsIn(timestamps), q \in PlatformsIn(timestamps) :
               p # q =>
                   ((\E i \in 1..Len(cs) : PairOf(cs[i]) = {p, q})
                    <=> ClosePairs(EntriesOf(timestamps, p), EntriesOf(timestamps, q)) # {})

C8_Witness ==
    /\ correlationsOut.called
    /\ Cardinality(PlatformsIn(timestamps)) = 3
    /\ Len(correlationsOut.val) = 1

(* C9: _find_activity_clusters skips every record whose timestamp cannot be
   parsed: the call does not raise, the activity counts add up to the number
   of parseable records, and there are as many clusters as dates among the
   parseable records. *)
C9_MalformedSkipped ==
    clustersOut.called =>
        /\ ~clustersOut.raised
        /\ SumActivityCounts(clustersOut.val) = Cardinality(Parseable(timestamps))
        /\ Len(clustersOut.val) = Cardinality(DatesIn(timestamps))

C9_Witness ==
    /\ clustersOut.called
    /\ Len(timestamps) = 2
    /\ Cardinality(Parseable(timestamps)) = 1
    /\ Len(clustersOut.val) = 1

(* C10: _find_activity_clusters returns exactly one cluster per calendar date
   that has a parseable record; its activity_count is the number of
   parseable records on that date and its platforms lists each platform of
   those records once and nothing else. *)
C10_OneClusterPerDate ==
    clustersOut.called =>
        LET cs == clustersOut.val IN
        /\ \A d \in DatesIn(timestamps) :
               Cardinality({c \in 1..Len(cs) : cs[c].date = d}) = 1
        /\ \A c \in 1..Len(cs) :
               /\ cs[c].date \in DatesIn(timestamps)
               /\ cs[c].activity_count = Cardinality(OnDate(timestamps, cs[c].date))
               /\ Range(cs[c].platforms) =
                      {PlatformOf(timestamps[i]) : i \in OnDate(timestamps, cs[c].date)}
               /\ Len(cs[c].platforms) = Cardinality(Range(cs[c].platforms))

C10_Witness ==
    /\ clustersOut.called
    /\ Len(clustersOut.val) = 2
    /\ \E c \in 1..Len(clustersOut.val) :
           /\ clustersOut.val[c].activity_count = 2
           /\ Len(clustersOut.val[c].platforms) = 1

----------------------------------------------------------------------------
\* the UTC calendar day on which the instant of a zoned timestamp falls
UtcDateOf(e) == StampSeconds(Get(e.timestamp)) \div 86400

(* C11: the date key of an activity cluster is the UTC calendar day of the
   record's instant: every parseable record is counted in the cluster of its
   UTC day, so records of the same instant share a cluster whatever offset
   their strings carry. *)
C11_ClusterKeyIsUtcDay ==
    clustersOut.called =>
        LET cs == clustersOut.val IN
        /\ \A i \in Parseable(timestamps) :
               \E c \in 1..Len(cs) : cs[c].date = UtcDateOf(timestamps[i])
        /\ \A c \in 1..Len(cs) :
               cs[c].activity_count =
                   Cardinality({i \in Parseable(timestamps) :
                                   UtcDateOf(timestamps[i]) = cs[c].date})

----------------------------------------------------------------------------
(* _analyze_username_consistency called on a set of identifiers *)

JaneDoe == Word("janedoe")
EmptyName == Str(<<>>)                          \* ""
AtNoDomain == Str(<<"john", "@">>)              \* "john@"
HttpInside == Str(<<"my", "http", "fan">>)      \* "myhttpfan"

Identifiers ==
    {JohnDoe, JaneDoe, JohnEmail, JohnUrl, EmptyName, AtNoDomain, HttpInside, IntVal}

InitUser == NodeIdle /\ CorrIdle /\ TimelineIdle /\ UserIdle /\ WorkflowIdle /\ UiIdle

\* identifiers.add(id)
AddIdentifier(id) ==
    /\ ~consistencyOut.called
    /\ id \notin identifierSet
    /\ Cardinality(identifierSet) < MaxIds
    /\ identifierSet' = identifierSet \cup {id}
    /\ UNCHANGED <<consistencyOut, nodeVars, corrVars, tlVars, wfVars, uiVars>>

CallAnalyzeUsernameConsistency ==
    /\ ~consistencyOut.called
    /\ consistencyOut' = [called |-> TRUE,
                          raised |-> AnalyzeUsernameConsistency(identifierSet).raised,
                          val |-> AnalyzeUsernameConsistency(identifierSet).val]
    /\ UNCHANGED <<identifierSet, nodeVars, corrVars, tlVars, wfVars, uiVars>>

NextUser ==
    \/ \E id \in Identifiers : AddIdentifier(id)
    \/ CallAnalyzeUsernameConsistency

SpecUser == InitUser /\ [][NextUser]_vars

----------------------------------------------------------------------------
(* Vocabulary of the identifier properties *)

AllStrIds == \A id \in identifierSet : id.ty = "str"

ContainsAt(id) == \E i \in 1..Len(id.s) : id.s[i] = "@"
ContainsHttp(id) == \E i \in 1..Len(id.s) : id.s[i] = "http"

\* the identifiers with neither '@' nor 'http' in them
KeptIds == {id \in identifierSet : ~ContainsAt(id) /\ ~ContainsHttp(id)}

\* total_usernames of the result, 0 when the result has no such key
CountedUsernames ==
    IF IsNone(consistencyOut.val.total_usernames) THEN 0
    ELSE Get(consistencyOut.val.total_usernames)

(* C12: when no identifier survives the username filter the result has all
   three fields: consistency_score 0, common_patterns [] and
   total_usernames 0. *)
C12_EmptyResultHasThreeFields ==
    (consistencyOut.called /\ AllStrIds /\ KeptIds = {}) =>
        /\ ~consistencyOut.raised
        /\ consistencyOut.val.consistency_score.num = 0
        /\ consistencyOut.val.common_patterns = <<>>
        /\ consistencyOut.val.total_usernames = Some(0)

(* C13: whenever an identifier survives the filter, common_patterns has
   exactly one element, one of the filtered usernames (each occurs once, so
   each has the greatest number of occurrences). *)
C13_OneCommonPattern ==
    (consistencyOut.called /\ AllStrIds /\ KeptIds # {}) =>
        /\ ~consistencyOut.raised
        /\ Len(consistencyOut.val.common_patterns) = 1
        /\ consistencyOut.val.common_patterns[1] \in KeptIds

(* C14: an identifier is kept as a username exactly when it contains neither
   '@' nor 'http'; when some identifier is kept, total_usernames is the
   number kept, and when none is kept the score is 0. *)
C14_KeptIffNoAtNoHttp ==
    (consistencyOut.called /\ AllStrIds) =>
        /\ ~consistencyOut.raised
        /\ KeptIds # {} =>
               /\ consistencyOut.val.total_usernames = Some(Cardinality(KeptIds))
               /\ consistencyOut.val.consistency_score.num > 0
        /\ KeptIds = {} => consistencyOut.val.consistency_score.num = 0

C14_Witness ==
    /\ consistencyOut.called
    /\ identifierSet = {JohnDoe, JohnEmail, JohnUrl}
    /\ consistencyOut.val.total_usernames = Some(1)

\* the shapes of the data model: '@' followed by a domain, a leading http
DomainLike(tok) == tok = "example.com"
EmailShaped(id) ==
    \E i \in 1..(Len(id.s) - 1) : id.s[i] = "@" /\ DomainLike(id.s[i + 1])
UrlShaped(id) == Len(id.s) >= 1 /\ id.s[1] = "http"

\* '@' with no domain after it, or http somewhere but not in front
OddShaped(id) ==
    \/ ContainsAt(id) /\ ~EmailShaped(id)
    \/ ContainsHttp(id) /\ ~UrlShaped(id)

(* C15 as stated: classification is by shape, so every identifier that is
   neither email-shaped nor URL-shaped is counted among the usernames. *)
C15_ClassifiedByShape ==
    (consistencyOut.called /\ AllStrIds) =>
        CountedUsernames =
            Cardinality({id \in identifierSet : ~EmailShaped(id) /\ ~UrlShaped(id)})

(* C15 as amended: classification is by substring: an identifier with '@'
   but no domain after it, or with http somewhere other than at its start,
   is excluded like an email or a URL and is not counted. *)
C15_OddShapesExcluded ==
    (consistencyOut.called /\ AllStrIds) =>
        CountedUsernames =
            Cardinality({id \in identifierSet :
                ~EmailShaped(id) /\ ~UrlShaped(id) /\ ~OddShaped(id)})

C15_Witness ==
    /\ consistencyOut.called
    /\ identifierSet = {JohnDoe, AtNoDomain, HttpInside}
    /\ CountedUsernames = 1

----------------------------------------------------------------------------
(* _map_platform_connections called on the collected state *)

CallMapPlatformConnections ==
    /\ NoCallYet
    /\ connectionsOut' = [called |-> TRUE,
                          raised |-> MapPlatformConnections(state).raised,
                          val |-> MapPlatformConnections(state).val]
    /\ UNCHANGED <<state, result, route, corrVars, tlVars, userVars, wfVars, uiVars>>

NextMap ==
    \/ \E item \in GoogleItems : GoogleAppend(item)
    \/ \E item \in SocialItems : SocialAppend(item)
    \/ CallMapPlatformConnections

SpecMap == Init /\ [][NextMap]_vars

\* the platform tags carried by the items of a data list
TagsOf(data) ==
    {Get(data[i].f.platform) :
        i \in {j \in 1..Len(data) : data[j].kind = "map" /\ ~IsNone(data[j].f.platform)}}

ObservedPlatforms == TagsOf(state.google_data) \cup TagsOf(state.social_data)

(* C16: the map returned by _map_platform_connections has one key per
   platform tag observed in google_data and social_data; each key maps to
   all the other observed platforms and only those, so the relation is
   symmetric, has no self-loops and lists no platform twice. *)
C16_AllOtherPlatforms ==
    (connectionsOut.called /\ ~connectionsOut.raised) =>
        LET m == connectionsOut.val IN
        /\ DOMAIN m = ObservedPlatforms
        /\ \A p \in DOMAIN m :
               /\ Range(m[p]) = ObservedPlatforms \ {p}
               /\ p \notin Range(m[p])
               /\ Len(m[p]) = Cardinality(Range(m[p]))
               /\ \A q \in DOMAIN m : q \in Range(m[p]) <=> p \in Range(m[q])

C16_Witness ==
    /\ connectionsOut.called
    /\ ~connectionsOut.raised
    /\ ObservedPlatforms = {Word("linkedin"), Word("twitter"), Word("github")}
    /\ Len(connectionsOut.val[Word("twitter")]) = 2

----------------------------------------------------------------------------
\* the item carries a timestamp that parses
ItemParseable(item) ==
    /\ item.kind = "map"
    /\ ~IsNone(item.f.timestamp)
    /\ Get(item.f.timestamp).k = "iso"

ParseableItems(data) == {i \in 1..Len(data) : ItemParseable(data[i])}

\* the platforms of the finding records built from parseable items
ParseablePlatforms ==
    (IF ParseableItems(state.google_data) # {} THEN {Word("google")} ELSE {})
    \cup {GetOr(state.social_data[i], "platform", Word("unknown")) :
             i \in ParseableItems(state.social_data)}

(* C17: only items with a parseable timestamp are counted by the timeline
   analysis: total_timestamped_items is the number of such items and
   platforms_with_timestamps holds exactly their platforms; an item whose
   timestamp is present but unparseable adds to neither. *)
C17_OnlyParseableCounted ==
    (result.called /\ ~result.raised /\ ~IsNone(result.timeline_data)) =>
        LET tl == Get(result.timeline_data) IN
        /\ tl.total_timestamped_items =
               Cardinality(ParseableItems(state.google_data))
               + Cardinality(ParseableItems(state.social_data))
        /\ Range(tl.platforms_with_timestamps) = ParseablePlatforms

----------------------------------------------------------------------------
(* The two functions with an empty-input return, called together *)

NextEmptyInput ==
    \/ \E a \in Activities : AppendActivity1(a)
    \/ \E a \in Activities : AppendActivity2(a)
    \/ CallCalculateTemporalCorrelation
    \/ CallFindActivityClusters

SpecEmptyInput == InitCorr /\ [][NextEmptyInput]_vars

(* C18: empty-input laws: _find_activity_clusters([]) returns [] without
   raising, and _calculate_temporal_correlation returns 0.0 whenever either
   list is empty, whatever the other list holds. *)
C18_EmptyInputLaws ==
    /\ (clustersOut.called /\ timestamps = <<>>) =>
           (~clustersOut.raised /\ clustersOut.val = <<>>)
    /\ (corr.called /\ (activities1 = <<>> \/ activities2 = <<>>)) =>
           corr.val.num = 0

C18_Witness ==
    /\ clustersOut.called
    /\ corr.called
    /\ activities1 = <<>>
    /\ activities2 = <<Activity(Some(BadStamp)), Activity(Some(T0))>>
    /\ corr.val.num = 0

----------------------------------------------------------------------------
(* C19 as stated: for any single-element list A,
   _calculate_temporal_correlation(A, A) is 1.0. *)
C19_SelfCorrelationIsOne ==
    (corr.called /\ Len(activities1) = 1 /\ activities2 = activities1) =>
        corr.val = [num |-> 1, den |-> 1]

(* C19 as amended: for any single-element list A whose record carries a
   well-formed timestamp, _calculate_temporal_correlation(A, A) is 1.0. *)
C19_WellFormedSelfCorrelationIsOne ==
    (corr.called /\ Len(activities1) = 1 /\ activities2 = activities1
        /\ WellFormed(activities1[1])) =>
        corr.val = [num |-> 1, den |-> 1]

C19_Witness ==
    /\ corr.called
    /\ activities1 = <<Activity(Some(T3))>>
    /\ activities2 = activities1
    /\ corr.val.num = 1

----------------------------------------------------------------------------
(* should_run_advanced_analysis called on the collected state *)

CallShouldRunAdvancedAnalysis ==
    /\ NoCallYet
    /\ route' = [called |-> TRUE,
                 raised |-> ShouldRunAdvancedAnalysis(state).raised,
                 val |-> ShouldRunAdvancedAnalysis(state).val]
    /\ UNCHANGED <<state, result, connectionsOut, corrVars, tlVars, userVars, wfVars, uiVars>>

NextRoute ==
    \/ \E item \in GoogleItems : GoogleAppend(item)
    \/ \E item \in SocialItems : SocialAppend(item)
    \/ CallShouldRunAdvancedAnalysis

SpecRoute == Init /\ [][NextRoute]_vars

\* config is absent or a dict, and so is its advanced_analysis section
ConfigIsDict == state.config.kind \in {"missing", "noadv", "full"}

(* C20: should_run_advanced_analysis returns "advanced_analysis" exactly
   when at least one of the flags under config['advanced_analysis'] is true
   and "report" otherwise; a state with no config, a config with no
   advanced_analysis key, and an empty advanced_analysis mapping route to
   "report". *)
C20_RouteIffAnyFlag ==
    (route.called /\ ConfigIsDict) =>
        /\ ~route.raised
        /\ route.val \in {"advanced_analysis", "report"}
        /\ route.val = "advanced_analysis" <=>
               /\ FlagsPresent
               /\ \/ FlagOn("timeline_correlation")
                  \/ FlagOn("network_analysis")
                  \/ FlagOn("deep_content_analysis")

C20_Witness ==
    /\ route.called
    /\ state.config = Config("full", Flags(FALSE, FALSE, TRUE))
    /\ state.social_data # <<>>
    /\ route.val = "advanced_analysis"

----------------------------------------------------------------------------
(* The workflow built by create_workflow: a graph run in supersteps.  The
   nodes triggered in one superstep run concurrently, each on the state as
   it was when the superstep began; their updates are merged into the
   channels when all of them have returned, and the edges leaving them give
   the nodes of the next superstep. *)

Nodes == {"google_search", "social_search", "analysis", "advanced_analysis", "report"}

\* add_edge(START, ...)
EntryNodes == {"google_search", "social_search"}

\* a variant with an unconditional edge from analysis to report as well
EdgesWithDirectReport ==
    {<<"google_search", "analysis">>, <<"social_search", "analysis">>,
     <<"advanced_analysis", "report">>, <<"analysis", "report">>}

\* add_edge between nodes; report's edge to END has no target node
Edges ==
    {<<"google_search", "analysis">>, <<"social_search", "analysis">>,
     <<"advanced_analysis", "report">>}

\* add_conditional_edges("analysis", should_run_advanced_analysis, {...})
ConditionalTarget(st) ==
    LET r == ShouldRunAdvancedAnalysis(st)
    IN [raised |-> r.raised,
        val |-> IF r.raised THEN {}
                ELSE IF r.val = "advanced_analysis" THEN {"advanced_analysis"}
                ELSE {"report"}]

\* the result strings of the two searches: the google text always holds
\* "Common email formats"; the rest depends on what the searches found
WorkflowGoogleBlobs == {Blob({"email"}), Blob({"email", "timestamp"})}
WorkflowSocialBlobs == {Blob({}), Blob({"timestamp"}), Blob({"platform"})}

\* return {"google_data": [result]}
GoogleNodeUpdate(blob) == [google_data |-> <<blob>>]

\* a variant that returns its blob under the other node's key
SocialNodeUpdateIntoGoogle(blob) == [google_data |-> <<blob>>]

\* return {"social_data": [result]}
SocialNodeUpdate(blob) == [social_data |-> <<blob>>]

\* return {"analysis": response.content}
AnalysisNodeUpdate == [analysis |-> Some("analysis")]

\* return {"report": report}
ReportNodeUpdate == [report |-> Some("report")]

\* return {"timeline_data": ..., "network_data": ...}
AdvancedNodeUpdate(res) ==
    [timeline_data |-> res.timeline_data, network_data |-> res.network_data]

\* Annotated[list, operator.add] concatenates; every other channel keeps the
\* last value written
Reduce(key, old, new) ==
    IF key \in {"google_data", "social_data"} THEN old \o new ELSE new

Merge(st, update) ==
    [k \in DOMAIN st |->
        IF k \in DOMAIN update THEN Reduce(k, st[k], update[k]) ELSE st[k]]

RECURSIVE MergeAll(_, _, _)
MergeAll(st, writes, i) ==
    IF i > Len(writes) THEN st
    ELSE MergeAll(Merge(st, writes[i]), writes, i + 1)

StartEvent(n) == [ev |-> "start", node |-> n, update |-> <<>>]
EndEvent(n, update) == [ev |-> "end", node |-> n, update |-> update]

InitWorkflow ==
    NodeIdle /\ CorrIdle /\ TimelineIdle /\ UserIdle /\ WorkflowIdle /\ UiIdle

\* app.invoke(inputs): the input is written to the channels and the nodes
\* on START's edges are triggered
Invoke(config) ==
    /\ wfPhase = "idle"
    /\ wfState' = [NoState EXCEPT !.config = config]
    /\ wfTask' = [n \in EntryNodes |-> "ready"]
    /\ wfPhase' = "running"
    /\ UNCHANGED <<wfWrites, wfLog, nodeVars, corrVars, tlVars, userVars, uiVars>>

StartNode(n) ==
    /\ wfPhase = "running"
    /\ n \in DOMAIN wfTask
    /\ wfTask[n] = "ready"
    /\ wfTask' = [wfTask EXCEPT ![n] = "running"]
    /\ wfLog' = Append(wfLog, StartEvent(n))
    /\ UNCHANGED <<wfState, wfWrites, wfPhase, nodeVars, corrVars, tlVars,
                   userVars, uiVars>>

\* the node returns its update
Return(n, update) ==
    /\ wfPhase = "running"
    /\ n \in DOMAIN wfTask
    /\ wfTask[n] = "running"
    /\ wfTask' = [wfTask EXCEPT ![n] = "done"]
    /\ wfWrites' = Append(wfWrites, update)
    /\ wfLog' = Append(wfLog, EndEvent(n, update))
    /\ UNCHANGED <<wfState, wfPhase, nodeVars, corrVars, tlVars, userVars, uiVars>>

\* the node raises: the run is over
Raise(n) ==
    /\ wfPhase = "running"
    /\ n \in DOMAIN wfTask
    /\ wfTask[n] = "running"
    /\ wfPhase' = "failed"
    /\ UNCHANGED <<wfState, wfTask, wfWrites, wfLog, nodeVars, corrVars, tlVars,
                   userVars, uiVars>>

GoogleNodeReturns(blob) == Return("google_search", GoogleNodeUpdate(blob))
SocialNodeReturns(blob) == Return("social_search", SocialNodeUpdate(blob))
AnalysisNodeReturns == Return("analysis", AnalysisNodeUpdate)
ReportNodeReturns == Return("report", ReportNodeUpdate)

\* llm.invoke fails
AnalysisNodeRaises == Raise("analysis")

\* llm.invoke or the write of the report file fails
ReportNodeRaises == Raise("report")

AdvancedNodeReturns ==
    /\ ~AdvancedAnalysisNode(wfState).raised
    /\ Return("advanced_analysis", AdvancedNodeUpdate(AdvancedAnalysisNode(wfState)))

AdvancedNodeRaises ==
    /\ AdvancedAnalysisNode(wfState).raised
    /\ Raise("advanced_analysis")

\* all nodes of the superstep have returned: merge, then follow the edges
EndSuperstep ==
    /\ wfPhase = "running"
    /\ \A n \in DOMAIN wfTask : wfTask[n] = "done"
    /\ LET merged == MergeAll(wfState, wfWrites, 1)
           ran == DOMAIN wfTask
           branch == IF "analysis" \in ran THEN ConditionalTarget(merged)
                     ELSE [raised |-> FALSE, val |-> {}]
           next == {e[2] : e \in {d \in Edges : d[1] \in ran}} \cup branch.val
       IN /\ wfState' = merged
          /\ wfWrites' = <<>>
          /\ wfTask' = IF branch.raised THEN wfTask ELSE [n \in next |-> "ready"]
          /\ wfPhase' = IF branch.raised THEN "failed"
                        ELSE IF next = {} THEN "ended" ELSE "running"
    /\ UNCHANGED <<wfLog, nodeVars, corrVars, tlVars, userVars, uiVars>>

NextWorkflow ==
    \/ \E config \in Configs : Invoke(config)
    \/ \E n \in Nodes : StartNode(n)
    \/ \E blob \in WorkflowGoogleBlobs : GoogleNodeReturns(blob)
    \/ \E blob \in WorkflowSocialBlobs : SocialNodeReturns(blob)
    \/ AnalysisNodeReturns
    \/ AnalysisNodeRaises
    \/ AdvancedNodeReturns
    \/ AdvancedNodeRaises
    \/ ReportNodeReturns
    \/ ReportNodeRaises
    \/ EndSuperstep

SpecWorkflow == InitWorkflow /\ [][NextWorkflow]_vars

----------------------------------------------------------------------------
(* Vocabulary of the workflow properties, stated on the log of the run *)

Started(n) == {i \in 1..Len(wfLog) : wfLog[i].ev = "start" /\ wfLog[i].node = n}
Ended(n) == {i \in 1..Len(wfLog) : wfLog[i].ev = "end" /\ wfLog[i].node = n}

\* node n had returned before position i of the log
EndedBefore(n, i) == \E j \in Ended(n) : j < i

(* C21: in every run of the workflow, analysis starts only after both
   google_search and social_search have returned; report starts only after
   analysis has returned and, when advanced_analysis runs, after it has
   returned; no node starts twice; and a run that reaches END ends with
   report. *)
C21_NodeOrder ==
    /\ \A n \in Nodes : Cardinality(Started(n)) <= 1
    /\ \A i \in Started("analysis") :
           EndedBefore("google_search", i) /\ EndedBefore("social_search", i)
    /\ \A i \in Started("report") :
           /\ EndedBefore("analysis", i)
           /\ Started("advanced_analysis") # {} => EndedBefore("advanced_analysis", i)
    /\ \A i \in Started("advanced_analysis") : \A j \in Started("report") : i < j
    /\ wfPhase = "ended" =>
           (wfLog # <<>> /\ wfLog[Len(wfLog)] = EndEvent("report", ReportNodeUpdate))

C21_Witness ==
    /\ wfPhase = "ended"
    /\ Ended("advanced_analysis") # {}
    /\ Len(wfLog) = 10
    /\ wfLog[1].node = "social_search"
    /\ wfLog[2].node = "google_search"
    /\ wfLog[3].node = "google_search"

----------------------------------------------------------------------------
\* the three flags of the run's config, read as the code reads them
WfFlag(name) ==
    /\ wfState.config.kind = "full"
    /\ Flag(wfState.config.flags, name)

DeepOnly ==
    /\ ~WfFlag("timeline_correlation")
    /\ ~WfFlag("network_analysis")
    /\ WfFlag("deep_content_analysis")

NoFlagEnabled ==
    /\ wfState.config.kind \in {"missing", "noadv", "full"}
    /\ ~WfFlag("timeline_correlation")
    /\ ~WfFlag("network_analysis")
    /\ ~WfFlag("deep_content_analysis")

(* C22: when deep_content_analysis is the only enabled flag, report is not
   reached without the advanced_analysis node having run, and that node
   returns timeline_data None and network_data None; when no flag is
   enabled the advanced_analysis node never starts and report is the node
   that starts right after analysis returns. *)
C22_DeepOnlyRoutesThroughAdvanced ==
    /\ (wfPhase # "idle" /\ DeepOnly) =>
           /\ \A i \in Started("report") : EndedBefore("advanced_analysis", i)
           /\ \A i \in Ended("analysis") :
                  Len(wfLog) > i => wfLog[i + 1] = StartEvent("advanced_analysis")
           /\ \A i \in Ended("advanced_analysis") :
                  wfLog[i].update = [timeline_data |-> None, network_data |-> None]
    /\ (wfPhase # "idle" /\ NoFlagEnabled) =>
           /\ Started("advanced_analysis") = {}
           /\ \A i \in Ended("analysis") :
                  Len(wfLog) > i => wfLog[i + 1] = StartEvent("report")

C22_Witness ==
    /\ wfPhase = "ended"
    /\ DeepOnly
    /\ Ended("advanced_analysis") # {}
    /\ wfState.google_data = <<Blob({"email", "timestamp"})>>
    /\ wfState.timeline_data = None

----------------------------------------------------------------------------
(* C23: under every interleaving of google_node and social_node, when
   analysis starts google_data is exactly the one blob google_node returned
   and social_data exactly the one blob social_node returned: nothing is
   lost, duplicated or moved, whichever node returns first. *)
C23_SearchUpdatesMerged ==
    "analysis" \in DOMAIN wfTask =>
        /\ Cardinality(Ended("google_search")) = 1
        /\ Cardinality(Ended("social_search")) = 1
        /\ \A i \in Ended("google_search") :
               \E blob \in WorkflowGoogleBlobs :
                   /\ wfLog[i].update = GoogleNodeUpdate(blob)
                   /\ wfState.google_data = <<blob>>
        /\ \A i \in Ended("social_search") :
               \E blob \in WorkflowSocialBlobs :
                   /\ wfLog[i].update = [social_data |-> <<blob>>]
                   /\ wfState.social_data = <<blob>>

\* social_node returned before google_node did
C23_Witness ==
    /\ "analysis" \in DOMAIN wfTask
    /\ wfTask["analysis"] = "running"
    /\ \E i \in Ended("social_search") : \E j \in Ended("google_search") : i < j
    /\ wfState.social_data = <<Blob({"platform"})>>

----------------------------------------------------------------------------
\* the keys of the update the node returned
UpdateKeys(res) == DOMAIN res \ {"called", "raised"}

(* C24: advanced_analysis_node leaves its input alone: across the call,
   with any flags, config, google_data and social_data and every record in
   them are unchanged, and the returned update has the keys timeline_data
   and network_data and no other. *)
C24_NodeLeavesStateAlone ==
    [][(~result.called /\ result'.called) =>
            /\ state' = state
            /\ UpdateKeys(result') = {"timeline_data", "network_data"}]_vars

C24_Witness ==
    /\ result.called
    /\ ~result.raised
    /\ FlagsPresent
    /\ FlagOn("deep_content_analysis")
    /\ FlagOn("timeline_correlation")
    /\ Len(state.social_data) = 2
    /\ ~IsNone(result.timeline_data)

----------------------------------------------------------------------------
(* The Streamlit page of app.py.  The script runs from the top after every
   click and after every st.rerun(); the session state lives across runs.
   A target is the sequence of its characters. *)

Whitespace == {" ", "\t"}

RECURSIVE LStrip(_)
LStrip(t) == IF t # <<>> /\ Head(t) \in Whitespace THEN LStrip(Tail(t)) ELSE t

RECURSIVE RStrip(_)
RStrip(t) ==
    IF t # <<>> /\ t[Len(t)] \in Whitespace THEN RStrip(SubSeq(t, 1, Len(t) - 1)) ELSE t

\* target_val.strip()
Strip(t) == RStrip(LStrip(t))

\* a variant that rejects the empty target only
InvalidIfEmpty(t) == t = <<>>

\* not target_val or not target_val.strip()
Invalid(t) == t = <<>> \/ Strip(t) = <<>>

\* a variant that leaves the handler on the root logger
KeepHandler(n) == n

\* root_logger.removeHandler(st_handler)
RemoveHandler(n) == n - 1

Targets == {<<>>, <<" ">>, <<"\t", " ">>, <<"j">>, <<" ", "j", " ">>}

\* what the try block can leave in report_content and latest_report_file
ReportOutcomes ==
    {[content |-> "report", file |-> Some("reports/j.md")],
     [content |-> "Report Not Found", file |-> None]}

InitUi ==
    NodeIdle /\ CorrIdle /\ TimelineIdle /\ UserIdle /\ WorkflowIdle /\ UiIdle

\* the user edits the text input while the page is waiting
TypeTarget(t) ==
    /\ uiPc = "waiting"
    /\ t # target_input
    /\ target_input' = t
    /\ errorShown' = FALSE
    /\ UNCHANGED <<processing, report_content, latest_report_file, handlers, uiPc,
                   workflowsCreated, nodeVars, corrVars, tlVars, userVars, wfVars>>

\* a click on the enabled Start button: start_investigation, then a rerun
ClickStart ==
    /\ uiPc = "waiting"
    /\ ~processing
    /\ workflowsCreated < MaxRuns
    /\ processing' = TRUE
    /\ report_content' = None
    /\ latest_report_file' = None
    /\ errorShown' = FALSE
    /\ uiPc' = "run"
    /\ UNCHANGED <<target_input, handlers, workflowsCreated,
                   nodeVars, corrVars, tlVars, userVars, wfVars>>

\* "if st.session_state.processing:" with an invalid target
RejectTarget ==
    /\ uiPc = "run"
    /\ processing
    /\ Invalid(target_input)
    /\ errorShown' = TRUE
    /\ processing' = FALSE
    /\ uiPc' = "rerun"
    /\ UNCHANGED <<report_content, latest_report_file, target_input, handlers,
                   workflowsCreated, nodeVars, corrVars, tlVars, userVars, wfVars>>

\* the else branch up to the try: the log handler is added
AddHandler ==
    /\ uiPc = "run"
    /\ processing
    /\ ~Invalid(target_input)
    /\ handlers' = handlers + 1
    /\ uiPc' = "try"
    /\ UNCHANGED <<processing, report_content, latest_report_file, target_input,
                   workflowsCreated, errorShown, nodeVars, corrVars, tlVars,
                   userVars, wfVars>>

\* app = create_workflow()
CreateWorkflow ==
    /\ uiPc = "try"
    /\ workflowsCreated' = workflowsCreated + 1
    /\ uiPc' = "invoke"
    /\ UNCHANGED <<processing, report_content, latest_report_file, target_input,
                   handlers, errorShown, nodeVars, corrVars, tlVars, userVars, wfVars>>

\* app.invoke returns and the report is looked up
InvokeReturns(outcome) ==
    /\ uiPc = "invoke"
    /\ report_content' = Some(outcome.content)
    /\ latest_report_file' = outcome.file
    /\ uiPc' = "finally"
    /\ UNCHANGED <<processing, target_input, handlers, workflowsCreated, errorShown,
                   nodeVars, corrVars, tlVars, userVars, wfVars>>

\* app.invoke raises: except Exception
InvokeRaises ==
    /\ uiPc = "invoke"
    /\ report_content' = Some("Error")
    /\ uiPc' = "finally"
    /\ UNCHANGED <<processing, latest_report_file, target_input, handlers,
                   workflowsCreated, errorShown, nodeVars, corrVars, tlVars,
                   userVars, wfVars>>

\* an exception that is not an Exception leaves the try block (the script
\* is stopped at its next st call by a pending rerun request, or
\* KeyboardInterrupt): "except Exception" does not match, finally runs
InvokeInterrupted ==
    /\ uiPc = "invoke"
    /\ uiPc' = "finally"
    /\ UNCHANGED <<processing, report_content, latest_report_file, target_input,
                   handlers, workflowsCreated, errorShown, nodeVars, corrVars,
                   tlVars, userVars, wfVars>>

\* the finally block
Finally ==
    /\ uiPc = "finally"
    /\ handlers' = RemoveHandler(handlers)
    /\ processing' = FALSE
    /\ uiPc' = "rerun"
    /\ UNCHANGED <<report_content, latest_report_file, target_input,
                   workflowsCreated, errorShown, nodeVars, corrVars, tlVars,
                   userVars, wfVars>>

\* st.rerun(): a run of the script with processing False draws the page anew
Rerun ==
    /\ uiPc = "rerun"
    /\ uiPc' = "waiting"
    /\ errorShown' = FALSE
    /\ UNCHANGED <<processing, report_content, latest_report_file, target_input,
                   handlers, workflowsCreated, nodeVars, corrVars, tlVars,
                   userVars, wfVars>>

\* the steps the script takes by itself
ScriptStep ==
    \/ RejectTarget
    \/ AddHandler
    \/ CreateWorkflow
    \/ \E outcome \in ReportOutcomes : InvokeReturns(outcome)
    \/ InvokeRaises
    \/ InvokeInterrupted
    \/ Finally
    \/ Rerun

NextUi ==
    \/ \E t \in Targets : TypeTarget(t)
    \/ ClickStart
    \/ ScriptStep

SpecUi == InitUi /\ [][NextUi]_vars

\* the script thread runs on until the page waits for the user, and
\* app.invoke comes back
SpecUiFair == SpecUi /\ WF_vars(ScriptStep)

----------------------------------------------------------------------------
\* the target is empty or made of whitespace only
WhitespaceOnly(t) == \A i \in 1..Len(t) : t[i] \in Whitespace

(* C25: a start with an empty or whitespace-only target is rejected: the
   script never reaches the workflow with such a target; the run that
   validates it shows the error, creates no workflow, adds no handler,
   leaves report_content None and sets processing to False; and the rerun
   that follows leaves the page waiting with the Start button enabled. *)
C25_BlankTargetRejected ==
    /\ [](uiPc \in {"try", "invoke", "finally"} => ~WhitespaceOnly(target_input))
    /\ [][(uiPc = "run" /\ WhitespaceOnly(target_input)) =>
              /\ errorShown'
              /\ ~processing'
              /\ report_content' = None
              /\ workflowsCreated' = workflowsCreated
              /\ handlers' = handlers]_vars
    /\ [][(uiPc = "rerun" /\ errorShown) =>
              /\ uiPc' = "waiting"
              /\ ~processing'
              /\ report_content' = None
              /\ workflowsCreated' = workflowsCreated]_vars

C25_Witness ==
    /\ uiPc = "rerun"
    /\ errorShown
    /\ target_input = <<"\t", " ">>
    /\ ~processing
    /\ workflowsCreated = 0
    /\ report_content = None

(* C26: every started investigation leaves the processing state; when it
   does, whether the workflow returned or raised, processing is False, the
   log handler of the run is off the root logger and report_content is not
   None; and a new start first clears report_content and
   latest_report_file. *)
C26_InvestigationEnds ==
    /\ processing ~> ~processing
    /\ [](uiPc = "waiting" => (~processing /\ handlers = 0))
    /\ [][uiPc = "finally" =>
              /\ ~processing'
              /\ handlers' = 0
              /\ report_content' # None]_vars
    /\ [][(~processing /\ processing') =>
              (report_content' = None /\ latest_report_file' = None)]_vars

----------------------------------------------------------------------------
(* C27: the input being a set, consistency_score is exactly 1 whenever an
   identifier survives the filter, and is never strictly between 0 and 1. *)
C27_ScoreIsZeroOrOne ==
    (consistencyOut.called /\ ~consistencyOut.raised) =>
        LET score == consistencyOut.val.consistency_score IN
        /\ score.den > 0
        /\ KeptIds # {} => score.num = score.den
        /\ score.num = 0 \/ score.num = score.den

C27_Witness ==
    /\ consistencyOut.called
    /\ identifierSet = {JohnDoe, JaneDoe, EmptyName}
    /\ consistencyOut.val.consistency_score = [num |-> 3, den |-> 3]

----------------------------------------------------------------------------
\* two scores are the same number
SameScore(a, b) == a.num * b.den = b.num * a.den

(* C28: _calculate_temporal_correlation is symmetric: for all lists A and
   B, malformed timestamps included, the score of (A, B) is the score of
   (B, A); so a pair of platforms has a positive score in one order exactly
   when it has one in the other. *)
C28_CorrelationSymmetric ==
    corr.called =>
        LET swapped == CalculateTemporalCorrelation(activities2, activities1) IN
        /\ SameScore(corr.val, swapped)
        /\ Positive(corr.val) <=> Positive(swapped)
        /\ corr.val.num * Len(activities1) * Len(activities2)
               = Cardinality(ClosePairs(activities2, activities1)) * corr.val.den

C28_Witness ==
    /\ corr.called
    /\ activities1 = <<Activity(Some(T0)), Activity(Some(BadStamp))>>
    /\ activities2 = <<Activity(Some(T2))>>
    /\ corr.val = [num |-> 0, den |-> 2]

----------------------------------------------------------------------------
\* the items of a data list that carry a timestamp key
TimestampedItems(data) ==
    {i \in 1..Len(data) : data[i].kind = "map" /\ ~IsNone(data[i].f.timestamp)}

EveryTimestampParses ==
    /\ TimestampedItems(state.google_data) = ParseableItems(state.google_data)
    /\ TimestampedItems(state.social_data) = ParseableItems(state.social_data)

(* C29: the timeline result is consistent with itself: every platform of
   every activity cluster and both platforms of every correlation entry
   are in platforms_with_timestamps, and the activity counts of the
   clusters add up to at most total_timestamped_items, to exactly that
   when and only when every timestamp parses. *)
C29_TimelineConsistent ==
    (result.called /\ ~result.raised /\ ~IsNone(result.timeline_data)) =>
        LET tl == Get(result.timeline_data)
            listed == Range(tl.platforms_with_timestamps)
            cs == tl.activity_clusters
            es == tl.cross_platform_correlations
        IN /\ \A c \in 1..Len(cs) : Range(cs[c].platforms) \subseteq listed
           /\ \A e \in 1..Len(es) :
                  es[e].platform_1 \in listed /\ es[e].platform_2 \in listed
           /\ SumActivityCounts(cs) <= tl.total_timestamped_items
           /\ SumActivityCounts(cs) = tl.total_timestamped_items
                  <=> EveryTimestampParses

C29_Witness ==
    /\ result.called
    /\ ~result.raised
    /\ ~IsNone(result.timeline_data)
    /\ Get(result.timeline_data).total_timestamped_items = 3
    /\ SumActivityCounts(Get(result.timeline_data).activity_clusters) = 2
    /\ Len(Get(result.timeline_data).cross_platform_correlations) = 1

----------------------------------------------------------------------------
\* all timestamps are zoned alike
SameOffset(ts) ==
    \A i \in 1..Len(ts) : \A j \in 1..Len(ts) :
        /\ StampAware(Get(ts[i].timestamp)) = StampAware(Get(ts[j].timestamp))
        /\ StampOffset(Get(ts[i].timestamp)) = StampOffset(Get(ts[j].timestamp))

(* C30: clustering and correlation agree: when all timestamps parse and
   carry the same UTC offset, two distinct platforms found in one activity
   cluster have an entry in cross_platform_correlations with a positive
   score. *)
C30_ClusterImpliesCorrelation ==
    (clustersOut.called /\ correlationsOut.called
        /\ AllWellFormed(timestamps) /\ SameOffset(timestamps)) =>
        /\ ~clustersOut.raised /\ ~correlationsOut.raised
        /\ \A c \in 1..Len(clustersOut.val) :
               \A p \in Range(clustersOut.val[c].platforms) :
                   \A q \in Range(clustersOut.val[c].platforms) \ {p} :
                       \E e \in 1..Len(correlationsOut.val) :
                           /\ {correlationsOut.val[e].platform_1,
                               correlationsOut.val[e].platform_2} = {p, q}
                           /\ correlationsOut.val[e].correlation_score.num > 0

C30_Witness ==
    /\ clustersOut.called
    /\ correlationsOut.called
    /\ Len(timestamps) = 3
    /\ AllWellFormed(timestamps) /\ SameOffset(timestamps)
    /\ Len(clustersOut.val) = 1
    /\ Len(clustersOut.val[1].platforms) = 3
    /\ Len(correlationsOut.val) = 3

====
